---- MODULE Spec2Model ----
(***************************************************************************)
(* Model of main.py: batch translation of SRT caption files through the   *)
(* DeepL API with a write-through JSON cache.                              *)
(*                                                                         *)
(* Strings are sequences of one-character strings.  The sentinel          *)
(* "<DEEPL_SPLIT_TOKEN>" is written as the single symbol TOKEN, which      *)
(* counts for its 19 characters in every length computation.               *)
(***************************************************************************)
EXTENDS Integers, Sequences, FiniteSets, TLC

(***************************************************************************)
(* Bounds of the model                                                     *)
(***************************************************************************)
MaxUnits == 2
MaxFiles == 2
MaxRuns == 2
MaxUsed == 22

(***************************************************************************)
(* Program constants                                                       *)
(***************************************************************************)
TOKEN == "#"
SplitTokenLen == 19
WarnMarginPct == 15
PLACEHOLDER == <<"!">>

(***************************************************************************)
(* String primitives                                                       *)
(***************************************************************************)
RECURSIVE StrLen(_)
StrLen(s) ==
    IF s = <<>> THEN 0
    ELSE (IF Head(s) = TOKEN THEN SplitTokenLen ELSE 1) + StrLen(Tail(s))

IsSpace(c) == c = " "

RECURSIVE LStrip(_)
LStrip(s) ==
    IF s = <<>> THEN <<>>
    ELSE IF IsSpace(Head(s)) THEN LStrip(Tail(s)) ELSE s

RECURSIVE RStrip(_)
RStrip(s) ==
    IF s = <<>> THEN <<>>
    ELSE IF IsSpace(s[Len(s)]) THEN RStrip(SubSeq(s, 1, Len(s) - 1)) ELSE s

Strip(s) == RStrip(LStrip(s))

RECURSIVE JoinWith(_, _)
JoinWith(sep, parts) ==
    IF parts = <<>> THEN <<>>
    ELSE IF Len(parts) = 1 THEN parts[1]
    ELSE parts[1] \o sep \o JoinWith(sep, Tail(parts))

\* Position of the first occurrence of c in s at or after position from, 0 if none.
RECURSIVE FindFrom(_, _, _)
FindFrom(s, c, from) ==
    IF from > Len(s) THEN 0
    ELSE IF s[from] = c THEN from
    ELSE FindFrom(s, c, from + 1)

\* re.sub(r"\[.*?\]|\{.*?\}", "", s): leftmost, non-greedy, non-overlapping.
RECURSIVE StripAnnotations(_)
StripAnnotations(s) ==
    IF s = <<>> THEN <<>>
    ELSE LET close == IF Head(s) = "[" THEN FindFrom(s, "]", 2)
                      ELSE IF Head(s) = "{" THEN FindFrom(s, "}", 2)
                      ELSE 0
         IN IF close > 0
            THEN StripAnnotations(SubSeq(s, close + 1, Len(s)))
            ELSE <<Head(s)>> \o StripAnnotations(Tail(s))

\* str.split(SPLIT_TOKEN): always at least one segment.
RECURSIVE SplitOnToken(_)
SplitOnToken(s) ==
    LET p == FindFrom(s, TOKEN, 1)
    IN IF p = 0 THEN <<s>>
       ELSE <<SubSeq(s, 1, p - 1)>> \o SplitOnToken(SubSeq(s, p + 1, Len(s)))

\* The clean text of a unit's text lines.
CleanText(text_lines) == Strip(StripAnnotations(JoinWith(<<" ">>, text_lines)))

Range(f) == {f[i] : i \in DOMAIN f}

\* dict assignment d[k] = v
DictSet(d, k, v) == [x \in DOMAIN d \cup {k} |-> IF x = k THEN v ELSE d[x]]

EmptyDict == [x \in {} |-> <<>>]


None == <<"None">>

(***************************************************************************)
(* Inputs: caption files, cache file contents, configuration, provider     *)
(***************************************************************************)
\* Text lines of a caption unit as block.split("\n") yields them after the
\* index and timestamp lines (blank separator lines included).
RawTextChoices ==
    { << <<"[","x","]","a">>, <<>>, <<>> >>,
      << <<"b","b">> >>,
      << <<"{","y","}">>, <<" ">> >> }

Unit(k, text_lines) == [index |-> k, timestamp |-> k, text_lines |-> text_lines]

UnitSeqs(n) == UNION {[1..m -> RawTextChoices] : m \in 1..n}

\* A caption file: whether read_text succeeds, and the units re.split finds.
FileOf(texts) ==
    [readable |-> TRUE, units |-> [k \in 1..Len(texts) |-> Unit(k, texts[k])]]

UnreadableFile == [readable |-> FALSE, units |-> <<>>]

FileChoices(n) == {FileOf(t) : t \in UnitSeqs(n)} \cup {UnreadableFile}

RECURSIVE TotalUnits(_)
TotalUnits(files) ==
    IF files = <<>> THEN 0 ELSE Len(Head(files).units) + TotalUnits(Tail(files))

\* Lists of discovered files holding at most MaxUnits units altogether.
FileLists ==
    {fl \in UNION {[1..m -> FileChoices(MaxUnits)] : m \in 0..MaxFiles} :
        TotalUnits(fl) <= MaxUnits}

\* cache.json: whether it exists, whether its bytes decode as UTF-8, whether
\* the decoded text is JSON, and the dict it then holds.
CacheFileOf(d) ==
    [exists |-> TRUE, decodable |-> TRUE, parsable |-> TRUE, data |-> d]
AbsentCacheFile ==
    [exists |-> FALSE, decodable |-> FALSE, parsable |-> FALSE, data |-> EmptyDict]
\* Text that is not JSON (json.JSONDecodeError), e.g. a truncated file.
CorruptCacheFile ==
    [exists |-> TRUE, decodable |-> TRUE, parsable |-> FALSE, data |-> EmptyDict]
\* Bytes that are not UTF-8 (UnicodeDecodeError), e.g. a file cut inside a
\* multi-byte character.
UndecodableCacheFile ==
    [exists |-> TRUE, decodable |-> FALSE, parsable |-> FALSE, data |-> EmptyDict]

CacheFileChoices ==
    { AbsentCacheFile,
      CorruptCacheFile,
      UndecodableCacheFile,
      CacheFileOf(DictSet(DictSet(EmptyDict, <<"a">>, <<>>), <<"b","b">>, <<"z">>)) }

MaxCharsChoices == {20, 40}

ConfigOf(chars, pct) ==
    [valid |-> TRUE, max_batch_chars |-> chars, quota_threshold |-> pct]
InvalidConfig == [valid |-> FALSE, max_batch_chars |-> 0, quota_threshold |-> 0]

\* Segments a provider response may carry between delimiters.
SegmentChoices == { <<" ">>, <<"x">>, <<" ","y"," ">> }

\* What may follow the n-th delimiter of a response.
ExtraSegmentChoices == { <<"x">> }

\* Response bodies for a batch of n texts: the empty body, or 1 .. n+1
\* delimiter-separated segments.
Responses(n) ==
    { <<>> }
    \cup
    {JoinWith(<<TOKEN>>, segs) :
        segs \in UNION {[1..m -> SegmentChoices] : m \in 1..n}}
    \cup
    {JoinWith(<<TOKEN>>, Append(segs, e)) :
        segs \in [1..n -> SegmentChoices], e \in ExtraSegmentChoices}

(***************************************************************************)
(* TranslationCache                                                        *)
(***************************************************************************)
\* Variant: loading never finds the stored entries.
LoadCacheAlwaysEmpty(file) == EmptyDict

\* _load_cache: the parsed file, or an empty dict when absent or unparsable.
LoadCache(file) ==
    IF file.exists /\ file.parsable THEN file.data ELSE EmptyDict

\* cache.get(text): the stored value or None.
CacheGet(c, text) == IF text \in DOMAIN c THEN c[text] ELSE None

\* save(): the cache file is rewritten with the whole in-memory dict.
Save(c) == CacheFileOf(c)

(***************************************************************************)
(* Planning loop of process_srt_file                                       *)
(***************************************************************************)
UnitLines(u) == <<u.index, u.timestamp>> \o u.text_lines

EnglishText(u) == CleanText(u.text_lines)

EmptyPlan ==
    [batches |-> <<>>, current_batch_text |-> <<>>,
     current_batch_indices |-> <<>>, all_translations |-> EmptyDict]

\* Variant: the budget test forgets the length accumulated so far.
ClosesBatchIgnoringAccumulated(current_batch_text, text_to_add, max_chars) ==
    /\ StrLen(text_to_add) > max_chars
    /\ current_batch_text # <<>>

\* Whether the batch being built is closed before the text is added.
ClosesBatch(current_batch_text, text_to_add, max_chars) ==
    /\ StrLen(current_batch_text) + StrLen(text_to_add) > max_chars
    /\ current_batch_text # <<>>

\* Variant: a cache hit is recorded but the loop does not `continue`.
PlanUnitWithoutContinue(p, u, c, max_chars) ==
    LET english_text == EnglishText(u)
        cached_translation == CacheGet(c, english_text)
        text_to_add == english_text \o <<TOKEN>>
        h == IF cached_translation # None
             THEN [p EXCEPT !.all_translations =
                                DictSet(@, english_text, cached_translation)]
             ELSE p
        q == IF ClosesBatch(h.current_batch_text, text_to_add, max_chars)
             THEN [h EXCEPT
                     !.batches = Append(@, [text |-> h.current_batch_text,
                                            original_texts |-> h.current_batch_indices]),
                     !.current_batch_text = <<>>,
                     !.current_batch_indices = <<>>]
             ELSE h
    IN [q EXCEPT !.current_batch_text = @ \o text_to_add,
                 !.current_batch_indices = Append(@, english_text)]

\* Variant: the loop never consults the cache; every text is batched.
PlanUnitIgnoringCache(p, u, c, max_chars) ==
    LET english_text == EnglishText(u)
        text_to_add == english_text \o <<TOKEN>>
        q == IF ClosesBatch(p.current_batch_text, text_to_add, max_chars)
             THEN [p EXCEPT
                     !.batches = Append(@, [text |-> p.current_batch_text,
                                            original_texts |-> p.current_batch_indices]),
                     !.current_batch_text = <<>>,
                     !.current_batch_indices = <<>>]
             ELSE p
    IN [q EXCEPT !.current_batch_text = @ \o text_to_add,
                 !.current_batch_indices = Append(@, english_text)]

\* One iteration of the planning loop.
PlanUnit(p, u, c, max_chars) ==
    IF Len(UnitLines(u)) < 2 THEN p
    ELSE LET english_text == EnglishText(u)
             cached_translation == CacheGet(c, english_text)
             text_to_add == english_text \o <<TOKEN>>
             q == IF ClosesBatch(p.current_batch_text, text_to_add, max_chars)
                  THEN [p EXCEPT
                          !.batches = Append(@, [text |-> p.current_batch_text,
                                                 original_texts |-> p.current_batch_indices]),
                          !.current_batch_text = <<>>,
                          !.current_batch_indices = <<>>]
                  ELSE p
         IN IF cached_translation # None
            THEN [p EXCEPT !.all_translations =
                               DictSet(@, english_text, cached_translation)]
            ELSE [q EXCEPT !.current_batch_text = @ \o text_to_add,
                           !.current_batch_indices = Append(@, english_text)]

RECURSIVE PlanLoop(_, _, _, _)
PlanLoop(p, units, c, max_chars) ==
    IF units = <<>> THEN p
    ELSE PlanLoop(PlanUnit(p, Head(units), c, max_chars), Tail(units), c, max_chars)

\* The whole planning phase, final flush included.
PlanBatches(units, c, max_chars) ==
    LET p == PlanLoop(EmptyPlan, units, c, max_chars)
    IN [batches |-> IF p.current_batch_text # <<>>
                    THEN Append(p.batches, [text |-> p.current_batch_text,
                                            original_texts |-> p.current_batch_indices])
                    ELSE p.batches,
        all_translations |-> p.all_translations]

(***************************************************************************)
(* Reassembly                                                              *)
(***************************************************************************)
RECURSIVE NonBlank(_)
NonBlank(lines) ==
    IF lines = <<>> THEN <<>>
    ELSE IF Strip(Head(lines)) # <<>> THEN <<Head(lines)>> \o NonBlank(Tail(lines))
    ELSE NonBlank(Tail(lines))

\* Variant: an untranslated unit repeats its source text instead of the placeholder.
TranslatedLineEchoingSource(english_text, translations, c) ==
    LET translated == CacheGet(translations, english_text)
    IN IF translated = None \/ translated = <<>>
       THEN LET cached == CacheGet(c, english_text)
            IN IF cached = None \/ cached = <<>> THEN english_text ELSE cached
       ELSE translated

\* The translated line of a unit: result map, then cache, then placeholder.
TranslatedLine(english_text, translations, c) ==
    LET translated == CacheGet(translations, english_text)
    IN IF translated = None \/ translated = <<>>
       THEN LET cached == CacheGet(c, english_text)
            IN IF cached = None \/ cached = <<>> THEN PLACEHOLDER ELSE cached
       ELSE translated

NewBlock(u, translations, c) ==
    [index |-> u.index, timestamp |-> u.timestamp,
     lines |-> NonBlank(u.text_lines),
     translated |-> TranslatedLine(EnglishText(u), translations, c)]

\* The lines of a block as joined by "\n" into the output.
BlockLines(b) == <<b.index, b.timestamp>> \o b.lines \o <<b.translated>>

\* Variant: units left without a translation are not emitted.
ReassembleTranslatedOnly(units, translations, c) ==
    SelectSeq([k \in 1..Len(units) |-> NewBlock(units[k], translations, c)],
              LAMBDA b : b.translated # PLACEHOLDER)

\* The reassembly loop: one new block per unit, in unit order.
Reassemble(units, translations, c) ==
    [k \in 1..Len(units) |-> NewBlock(units[k], translations, c)]

(***************************************************************************)
(* Quota guard                                                             *)
(***************************************************************************)
\* used / limit > pct / 100, with limit = 0 read as fraction 0.
FractionAbove(used, limit, pct) ==
    IF limit = 0 THEN 0 > pct ELSE 100 * used > pct * limit

\* Variant: an exhausted quota only warns.
QuotaTierNeverAborting(used, limit, threshold) ==
    IF FractionAbove(used, limit, threshold - WarnMarginPct) THEN "warn" ELSE "pass"

\* Variant: the warning tier includes its lower bound.
QuotaTierInclusiveWarn(used, limit, threshold) ==
    IF FractionAbove(used, limit, threshold) THEN "abort"
    ELSE IF ~FractionAbove(used, limit, threshold - WarnMarginPct)
            /\ (IF limit = 0 THEN 0 # threshold - WarnMarginPct
                ELSE 100 * used # (threshold - WarnMarginPct) * limit)
         THEN "pass"
    ELSE "warn"

\* The message main prints for the usage fraction.
QuotaTier(used, limit, threshold) ==
    IF FractionAbove(used, limit, threshold) THEN "abort"
    ELSE IF FractionAbove(used, limit, threshold - WarnMarginPct) THEN "warn"
    ELSE "pass"

(***************************************************************************)
(* State                                                                   *)
(***************************************************************************)
VARIABLES
    pc,                  \* position of main / process_srt_file
    run,                 \* number of the current run of the tool
    exit_code,           \* -1 while running, else the process exit code
    exit_reason,         \* why the process exited
    config,              \* content of config.ini
    account,             \* provider-side usage: <<character_count, character_limit>>
    usage_calls,         \* get_usage calls made in this run
    quota_tier,          \* which quota message main printed
    CACHE_FILE,          \* content of cache.json
    cache,               \* TranslationCache.cache
    srt_files,           \* the discovered caption files, in glob order
    file_idx,            \* position of the for loop over srt_files
    indexed_blocks,      \* units of the file being processed
    batches,             \* planned batches of the file being processed
    all_translations,    \* Translation Result Map of the file being processed
    batch_idx,           \* position of the loop over batches
    translated_segments, \* split response of the batch being recorded
    seg_idx,             \* position of the loop over original_texts
    output_files,        \* content of the .zh.srt file of each caption file
    effects,             \* kinds of file / network effects of this run
    invoked,             \* files process_srt_file was called for, in order
    raised,              \* files whose processing ended in the except branch
    written,             \* files whose output was written in this run
    failed_batches,      \* batches of the current file whose call returned ""
    run_start_cache,     \* cache.json as it was when this run started
    calls,               \* batches of the current file passed to api.translate
    slept,               \* whether time.sleep ran after the latest API call
    plan_caches,         \* the in-memory cache as each file's planning found it
    http_403,            \* whether the latest API call was answered with HTTP 403
    prev                 \* what the previous run left: outputs, effects, failures

vars == <<pc, run, exit_code, exit_reason, config, account, usage_calls, quota_tier,
          CACHE_FILE, cache, srt_files, file_idx, indexed_blocks, batches,
          all_translations, batch_idx, translated_segments, seg_idx, output_files,
          effects, invoked, raised, written, failed_batches, run_start_cache,
          calls, slept, plan_caches, http_403, prev>>

envVars == <<config, account, srt_files>>
fileVars == <<indexed_blocks, batches, all_translations, batch_idx,
              translated_segments, seg_idx, failed_batches, calls>>
quotaVars == <<usage_calls, quota_tier>>
paceVars == <<slept, http_403>>
loopVars == <<file_idx, invoked, raised, written, plan_caches>>
runVars == <<run, run_start_cache, prev>>

NoOutput == [exists |-> FALSE, blocks |-> <<>>]
OutputOf(blocks) == [exists |-> TRUE, blocks |-> blocks]

NoPrev == [outputs |-> <<>>, written |-> {}, effects |-> {}, failed |-> FALSE]

\* The state of a newly started process.
FreshRun ==
    /\ pc = "start"
    /\ exit_code = -1
    /\ exit_reason = "none"
    /\ usage_calls = 0
    /\ quota_tier = "none"
    /\ cache = EmptyDict
    /\ file_idx = 0
    /\ indexed_blocks = <<>>
    /\ batches = <<>>
    /\ all_translations = EmptyDict
    /\ batch_idx = 0
    /\ translated_segments = <<>>
    /\ seg_idx = 0
    /\ effects = {}
    /\ invoked = <<>>
    /\ raised = {}
    /\ written = {}
    /\ failed_batches = {}
    /\ calls = <<>>
    /\ slept = FALSE
    /\ plan_caches = <<>>
    /\ http_403 = FALSE

\* The same values as the state of a newly started process.
StartProcess ==
    /\ pc' = "start"
    /\ exit_code' = -1
    /\ exit_reason' = "none"
    /\ usage_calls' = 0
    /\ quota_tier' = "none"
    /\ cache' = EmptyDict
    /\ file_idx' = 0
    /\ indexed_blocks' = <<>>
    /\ batches' = <<>>
    /\ all_translations' = EmptyDict
    /\ batch_idx' = 0
    /\ translated_segments' = <<>>
    /\ seg_idx' = 0
    /\ effects' = {}
    /\ invoked' = <<>>
    /\ raised' = {}
    /\ written' = {}
    /\ failed_batches' = {}
    /\ calls' = <<>>
    /\ slept' = FALSE
    /\ plan_caches' = <<>>
    /\ http_403' = FALSE

InitWith(configs, accounts, lists) ==
    /\ config \in configs
    /\ account \in accounts
    /\ srt_files \in lists
    /\ CACHE_FILE \in CacheFileChoices
    /\ run_start_cache = CACHE_FILE
    /\ output_files = [k \in 1..Len(srt_files) |-> NoOutput]
    /\ run = 1
    /\ prev = NoPrev
    /\ FreshRun

Init ==
    InitWith({ConfigOf(c, 90) : c \in MaxCharsChoices} \cup {InvalidConfig},
             {<<15, 20>>, <<19, 20>>},
             FileLists)

\* Thresholds and usage counts for the quota guard's three tiers.
ThresholdChoices == {0, 15, 50, 90, 100}
LimitChoices == {0, 20}

QuotaFileLists ==
    { <<>>,
      <<UnreadableFile>>,
      <<FileOf(<< << <<"b","b">> >> >>)>> }

InitQuota ==
    InitWith({ConfigOf(40, t) : t \in ThresholdChoices} \cup {InvalidConfig},
             (0..MaxUsed) \X LimitChoices,
             QuotaFileLists)

(***************************************************************************)
(* main: startup and quota guard                                           *)
(***************************************************************************)
Exit(code, reason) ==
    /\ pc' = "exited"
    /\ exit_code' = code
    /\ exit_reason' = reason

\* load_config_settings returns the settings.
LoadConfig ==
    /\ pc = "start"
    /\ config.valid
    /\ pc' = "quota"
    /\ UNCHANGED <<exit_code, exit_reason, envVars, quotaVars, CACHE_FILE, cache,
                   loopVars, fileVars, output_files, effects, paceVars, runVars>>

\* load_config_settings raises: sys.exit(1) before any network call.
ConfigError ==
    /\ pc = "start"
    /\ ~config.valid
    /\ Exit(1, "config")
    /\ UNCHANGED <<envVars, quotaVars, CACHE_FILE, cache, loopVars, fileVars,
                   output_files, effects, paceVars, runVars>>

\* get_usage succeeds (it never sleeps); the three-tier policy decides.
GetUsage ==
    /\ pc = "quota"
    /\ usage_calls' = usage_calls + 1
    /\ slept' = FALSE
    /\ http_403' = FALSE
    /\ LET tier == QuotaTier(account[1], account[2], config.quota_threshold)
       IN /\ quota_tier' = tier
          /\ IF tier = "abort"
             THEN Exit(1, "quota")
             ELSE /\ pc' = "discover"
                  /\ UNCHANGED <<exit_code, exit_reason>>
    /\ UNCHANGED <<envVars, CACHE_FILE, cache, loopVars, fileVars, output_files,
                   effects, runVars>>

\* get_usage fails: 403 exits in _handle_error, a RequestException in main.
GetUsageFails ==
    /\ pc = "quota"
    /\ usage_calls' = usage_calls + 1
    /\ slept' = FALSE
    /\ \E reason \in {"forbidden", "usage_error"} :
          /\ Exit(1, reason)
          /\ http_403' = (reason = "forbidden")
    /\ UNCHANGED <<envVars, quota_tier, CACHE_FILE, cache, loopVars, fileVars,
                   output_files, effects, runVars>>

\* cache = TranslationCache() raises: reading cache.json fails with an
\* exception other than json.JSONDecodeError, outside every try of main.
LoadCacheFails ==
    /\ pc = "discover"
    /\ CACHE_FILE.exists
    /\ ~CACHE_FILE.decodable
    /\ Exit(1, "cache_load")
    /\ UNCHANGED <<envVars, quotaVars, CACHE_FILE, cache, loopVars, fileVars,
                   output_files, effects, paceVars, runVars>>

\* cache = TranslationCache(); the glob; the empty-list return.
LoadCacheAndDiscover ==
    /\ pc = "discover"
    /\ ~CACHE_FILE.exists \/ CACHE_FILE.decodable
    /\ cache' = LoadCache(CACHE_FILE)
    /\ IF srt_files = <<>>
       THEN /\ pc' = "done"
            /\ exit_code' = 0
            /\ file_idx' = 0
       ELSE /\ pc' = "file"
            /\ exit_code' = exit_code
            /\ file_idx' = 1
    /\ UNCHANGED <<exit_reason, envVars, quotaVars, CACHE_FILE, invoked, raised,
                   written, plan_caches, fileVars, output_files, effects, paceVars,
                   runVars>>

(***************************************************************************)
(* process_srt_file                                                        *)
(***************************************************************************)
\* Variant: set updates the dict and never saves.
CacheSetWithoutSave(c, file, text, translation) ==
    [cache |-> DictSet(c, text, translation), file |-> file]

\* Variant: set saves the file but loses the in-memory entry.
CacheSetDroppingEntry(c, file, text, translation) ==
    [cache |-> c, file |-> Save(DictSet(c, text, translation))]

\* cache.set(text, translation): the dict entry, then save().
CacheSet(c, file, text, translation) ==
    [cache |-> DictSet(c, text, translation),
     file |-> Save(DictSet(c, text, translation))]

\* process_srt_file returns: its locals are gone.
DropLocals ==
    /\ indexed_blocks' = <<>>
    /\ batches' = <<>>
    /\ all_translations' = EmptyDict
    /\ batch_idx' = 0
    /\ translated_segments' = <<>>
    /\ seg_idx' = 0
    /\ failed_batches' = {}
    /\ calls' = <<>>

\* Variant: the exception is not caught and ends the process.
FileAbortedUncaught ==
    /\ raised' = raised \cup {file_idx}
    /\ DropLocals
    /\ file_idx' = file_idx
    /\ Exit(1, "exception")

\* The except branch of process_srt_file: log, return to main's loop.
FileAborted ==
    /\ raised' = raised \cup {file_idx}
    /\ DropLocals
    /\ pc' = "file"
    /\ file_idx' = file_idx + 1
    /\ UNCHANGED <<exit_code, exit_reason>>

\* read_text, re.split and the planning loop.
ReadAndPlan ==
    /\ pc = "file"
    /\ file_idx <= Len(srt_files)
    /\ srt_files[file_idx].readable
    /\ LET units == srt_files[file_idx].units
           plan == PlanBatches(units, cache, config.max_batch_chars)
       IN /\ indexed_blocks' = units
          /\ batches' = plan.batches
          /\ all_translations' = plan.all_translations
    /\ batch_idx' = 1
    /\ translated_segments' = <<>>
    /\ seg_idx' = 0
    /\ failed_batches' = {}
    /\ calls' = <<>>
    /\ plan_caches' = Append(plan_caches, cache)
    /\ invoked' = Append(invoked, file_idx)
    /\ effects' = effects \cup {"read"}
    /\ pc' = "batches"
    /\ UNCHANGED <<exit_code, exit_reason, envVars, quotaVars, CACHE_FILE, cache,
                   file_idx, raised, written, output_files, paceVars, runVars>>

\* read_text raises (undecodable content): caught at the file boundary.
ReadFails ==
    /\ pc = "file"
    /\ file_idx <= Len(srt_files)
    /\ ~srt_files[file_idx].readable
    /\ invoked' = Append(invoked, file_idx)
    /\ effects' = effects \cup {"read"}
    /\ FileAborted
    /\ UNCHANGED <<envVars, quotaVars, CACHE_FILE, cache, written, plan_caches,
                   output_files, paceVars, runVars>>

InBatchLoop == pc = "batches" /\ batch_idx <= Len(batches)

\* Variant: a batch whose call returned "" is tried again.
BatchFailedRetrying ==
    /\ failed_batches' = failed_batches \cup {batch_idx}
    /\ batch_idx' = batch_idx
    /\ pc' = "batches"
    /\ UNCHANGED <<translated_segments, seg_idx>>

\* api.translate returns "": the else branch, nothing recorded for the batch.
BatchFailed ==
    /\ failed_batches' = failed_batches \cup {batch_idx}
    /\ batch_idx' = batch_idx + 1
    /\ pc' = "batches"
    /\ UNCHANGED <<translated_segments, seg_idx>>

\* api.translate returns the response body r of a 200 answer, after
\* time.sleep(sleep_time).
TranslateReturns ==
    /\ InBatchLoop
    /\ calls' = Append(calls, batch_idx)
    /\ slept' = TRUE
    /\ http_403' = FALSE
    /\ \E r \in Responses(Len(batches[batch_idx].original_texts)) :
          IF r = <<>>
          THEN /\ BatchFailed
               /\ effects' = effects \cup {"translate", "batch_failed"}
          ELSE /\ translated_segments' = SplitOnToken(r)
               /\ seg_idx' = 1
               /\ pc' = "segments"
               /\ effects' = effects \cup {"translate"}
               /\ UNCHANGED <<batch_idx, failed_batches>>
    /\ UNCHANGED <<exit_code, exit_reason, envVars, quotaVars, CACHE_FILE, cache,
                   loopVars, indexed_blocks, batches, all_translations,
                   output_files, runVars>>

\* requests raises a RequestException (network, HTTP status other than 403):
\* translate prints it and returns "" without sleeping.
TranslateRequestError ==
    /\ InBatchLoop
    /\ calls' = Append(calls, batch_idx)
    /\ slept' = FALSE
    /\ http_403' = FALSE
    /\ BatchFailed
    /\ effects' = effects \cup {"translate", "batch_failed"}
    /\ UNCHANGED <<exit_code, exit_reason, envVars, quotaVars, CACHE_FILE, cache,
                   loopVars, indexed_blocks, batches, all_translations,
                   output_files, runVars>>

\* Variant: the 403 is handled like any other request error of translate.
TranslateForbiddenSwallowed ==
    /\ InBatchLoop
    /\ calls' = Append(calls, batch_idx)
    /\ slept' = FALSE
    /\ http_403' = TRUE
    /\ BatchFailed
    /\ effects' = effects \cup {"translate", "batch_failed"}
    /\ UNCHANGED <<exit_code, exit_reason, envVars, quotaVars, CACHE_FILE, cache,
                   loopVars, indexed_blocks, batches, all_translations,
                   output_files, runVars>>

\* HTTP 403: _handle_error calls sys.exit(1); SystemExit passes every handler.
TranslateForbidden ==
    /\ InBatchLoop
    /\ calls' = Append(calls, batch_idx)
    /\ slept' = FALSE
    /\ http_403' = TRUE
    /\ effects' = effects \cup {"translate"}
    /\ Exit(1, "forbidden")
    /\ UNCHANGED <<envVars, quotaVars, CACHE_FILE, cache, loopVars, indexed_blocks,
                   batches, all_translations, batch_idx, translated_segments,
                   seg_idx, failed_batches, output_files, runVars>>

\* Variant: the except branch restores the cache the file's planning found.
TranslateRaisesRollingBack ==
    /\ InBatchLoop
    /\ slept' = FALSE
    /\ http_403' = FALSE
    /\ effects' = effects \cup {"translate", "batch_failed"}
    /\ FileAborted
    /\ cache' = plan_caches[Len(plan_caches)]
    /\ CACHE_FILE' = Save(plan_caches[Len(plan_caches)])
    /\ UNCHANGED <<envVars, quotaVars, invoked, written, plan_caches,
                   output_files, runVars>>

\* The 200 answer lacks translations[0].text: KeyError leaves translate and is
\* caught at the file boundary.
TranslateRaises ==
    /\ InBatchLoop
    /\ slept' = FALSE
    /\ http_403' = FALSE
    /\ effects' = effects \cup {"translate", "batch_failed"}
    /\ FileAborted
    /\ UNCHANGED <<envVars, quotaVars, CACHE_FILE, cache, invoked, written,
                   plan_caches, output_files, runVars>>

\* Variant: a segment that is blank after trimming is still recorded.
HasSegmentUntrimmed(segments, i) ==
    i <= Len(segments)

\* Whether position i of the batch has a usable response segment.
HasSegment(segments, i) ==
    i <= Len(segments) /\ Strip(segments[i]) # <<>>

\* One iteration of the loop over original_texts of the batch being recorded.
RecordSegment ==
    /\ pc = "segments"
    /\ LET original_texts == batches[batch_idx].original_texts
           original_text == original_texts[seg_idx]
       IN /\ IF HasSegment(translated_segments, seg_idx)
             THEN LET translation == Strip(translated_segments[seg_idx])
                      w == CacheSet(cache, CACHE_FILE, original_text, translation)
                  IN /\ all_translations' =
                            DictSet(all_translations, original_text, translation)
                     /\ cache' = w.cache
                     /\ CACHE_FILE' = w.file
                     /\ effects' = effects \cup {"cache_write"}
             ELSE UNCHANGED <<all_translations, cache, CACHE_FILE, effects>>
          /\ IF seg_idx = Len(original_texts)
             THEN /\ batch_idx' = batch_idx + 1
                  /\ seg_idx' = 0
                  /\ pc' = "batches"
             ELSE /\ seg_idx' = seg_idx + 1
                  /\ UNCHANGED <<batch_idx, pc>>
    /\ UNCHANGED <<exit_code, exit_reason, envVars, quotaVars, loopVars,
                   indexed_blocks, batches, translated_segments, failed_batches,
                   calls, output_files, paceVars, runVars>>

\* Reassembly and write_text of the output file.
WriteOutput ==
    /\ pc = "batches"
    /\ batch_idx > Len(batches)
    /\ output_files' = [output_files EXCEPT ![file_idx] =
           OutputOf(Reassemble(indexed_blocks, all_translations, cache))]
    /\ written' = written \cup {file_idx}
    /\ effects' = effects \cup {"output"}
    /\ pc' = "file"
    /\ file_idx' = file_idx + 1
    /\ DropLocals
    /\ UNCHANGED <<exit_code, exit_reason, envVars, quotaVars, CACHE_FILE, cache,
                   invoked, raised, plan_caches, paceVars, runVars>>

\* write_text raises (OSError): caught at the file boundary, nothing written.
WriteFails ==
    /\ pc = "batches"
    /\ batch_idx > Len(batches)
    /\ FileAborted
    /\ UNCHANGED <<envVars, quotaVars, CACHE_FILE, cache, invoked, written,
                   plan_caches, output_files, effects, paceVars, runVars>>

\* The for loop over srt_files ends; main returns.
Finish ==
    /\ pc = "file"
    /\ file_idx > Len(srt_files)
    /\ pc' = "done"
    /\ exit_code' = 0
    /\ UNCHANGED <<exit_reason, envVars, quotaVars, CACHE_FILE, cache, loopVars,
                   fileVars, output_files, effects, paceVars, runVars>>

\* The user runs the tool again on the same file: a new process in the same
\* directory, which holds at most one caption file.
Rerun ==
    /\ pc = "done"
    /\ run < MaxRuns
    /\ Len(srt_files) <= 1
    /\ run' = run + 1
    /\ prev' = [outputs |-> output_files, written |-> written, effects |-> effects,
                failed |-> "batch_failed" \in effects]
    /\ run_start_cache' = CACHE_FILE
    /\ StartProcess
    /\ UNCHANGED <<envVars, CACHE_FILE, output_files>>

Next ==
    \/ LoadConfig
    \/ ConfigError
    \/ GetUsage
    \/ GetUsageFails
    \/ LoadCacheFails
    \/ LoadCacheAndDiscover
    \/ ReadAndPlan
    \/ ReadFails
    \/ TranslateReturns
    \/ TranslateRequestError
    \/ TranslateForbidden
    \/ TranslateRaises
    \/ RecordSegment
    \/ WriteOutput
    \/ WriteFails
    \/ Finish
    \/ Rerun

Spec == Init /\ [][Next]_vars

SpecQuota == InitQuota /\ [][Next]_vars

(***************************************************************************)
(* Properties of the planning loop                                         *)
(***************************************************************************)
InFile == pc \in {"batches", "segments"}
JustPlanned == pc = "batches" /\ batch_idx = 1

RECURSIVE BatchedTexts(_)
BatchedTexts(bs) ==
    IF bs = <<>> THEN <<>> ELSE Head(bs).original_texts \o BatchedTexts(Tail(bs))

FileTexts == {CleanText(indexed_blocks[k].text_lines) : k \in DOMAIN indexed_blocks}

RECURSIVE SumOfLengths(_)
SumOfLengths(texts) ==
    IF texts = <<>> THEN 0
    ELSE Len(Head(texts)) + SplitTokenLen + SumOfLengths(Tail(texts))

RECURSIVE Delimited(_)
Delimited(texts) ==
    IF texts = <<>> THEN <<>>
    ELSE Head(texts) \o <<TOKEN>> \o Delimited(Tail(texts))

\* C1: the batches of a file are a partition of its uncached clean texts: no
\* clean text is listed twice, be it in two batches or twice in one batch.
C1_BatchesArePartition ==
    InFile =>
        LET flat == BatchedTexts(batches)
        IN \A i, j \in DOMAIN flat : i # j => flat[i] # flat[j]

\* C2: every batch is the untruncated concatenation of its texts, each followed
\* by the delimiter; its length is within max_batch_chars unless it holds one
\* text only; a text that alone exceeds the budget is alone in its batch; and
\* no uncached text is left out of the batches.
C2_BatchWithinBudget ==
    /\ InFile =>
        \A b \in DOMAIN batches :
            LET texts == batches[b].original_texts
            IN /\ texts # <<>>
               /\ batches[b].text = Delimited(texts)
               /\ StrLen(batches[b].text) = SumOfLengths(texts)
               /\ \/ SumOfLengths(texts) <= config.max_batch_chars
                  \/ Len(texts) = 1
               /\ \A i \in DOMAIN texts :
                     Len(texts[i]) + SplitTokenLen > config.max_batch_chars
                         => Len(texts) = 1
    /\ JustPlanned =>
        \A t \in FileTexts :
            t \notin DOMAIN cache => t \in Range(BatchedTexts(batches))

C2_Witness ==
    /\ InFile
    /\ Len(batches) = 2
    /\ StrLen(batches[1].text) > config.max_batch_chars
    /\ Len(batches[1].original_texts) = 1

\* C3: right after planning, the cache hits recorded in the result map and the
\* texts placed in batches are disjoint, together they are exactly the clean
\* texts of the file, and the hits are exactly the texts the cache holds, with
\* the cached value.
C3_HitsAndBatchesCoverFile ==
    JustPlanned =>
        LET hits == DOMAIN all_translations
            batched == Range(BatchedTexts(batches))
        IN /\ hits \cap batched = {}
           /\ hits \cup batched = FileTexts
           /\ \A t \in FileTexts :
                 /\ t \in hits <=> t \in DOMAIN cache
                 /\ t \in hits => all_translations[t] = cache[t]

C3_Witness ==
    /\ JustPlanned
    /\ DOMAIN all_translations # {}
    /\ batches # <<>>

(***************************************************************************)
(* Properties of translation, reassembly and reruns                        *)
(***************************************************************************)
InFailedBatch(t) ==
    \E b \in failed_batches : t \in Range(batches[b].original_texts)
\* What C4 asks of every step.
C4_Step ==
    /\ (batch_idx \in failed_batches' /\ batch_idx \notin failed_batches) =>
          /\ cache' = cache
          /\ CACHE_FILE' = CACHE_FILE
          /\ all_translations' = all_translations
          /\ batches' = batches
          /\ pc' = "batches"
          /\ batch_idx' = batch_idx + 1
          /\ file_idx' = file_idx
          /\ exit_code' = -1
    /\ (file_idx \in written' /\ file_idx \notin written) =>
          /\ output_files'[file_idx].exists
          /\ \A k \in DOMAIN indexed_blocks :
                LET t == CleanText(indexed_blocks[k].text_lines)
                IN InFailedBatch(t) =>
                      output_files'[file_idx].blocks[k].translated =
                          (IF t \in DOMAIN cache THEN cache[t] ELSE PLACEHOLDER)

\* C4: the step in which a batch's translate call returns an empty result
\* writes nothing to the result map, the cache or cache.json and moves on to
\* the next batch of the same file; and when the file's output is written,
\* every unit whose clean text was in such a batch carries the cache value of
\* its text if there is one and the placeholder otherwise.
C4_EmptyResultLeavesBatchUntranslated == [][C4_Step]_vars

C4_Witness ==
    /\ pc = "done"
    /\ run = 1
    /\ Len(srt_files) = 1
    /\ raised = {}
    /\ written = {1}
    /\ "batch_failed" \in effects
    /\ "cache_write" \notin effects
    /\ \E k \in DOMAIN output_files[1].blocks :
          output_files[1].blocks[k].translated = PLACEHOLDER

AllFileTexts ==
    UNION {{CleanText(srt_files[f].units[k].text_lines) : k \in DOMAIN srt_files[f].units} :
              f \in DOMAIN srt_files}

FullHitAtStart == \A t \in AllFileTexts : t \in DOMAIN run_start_cache.data

\* C5 as stated: a second run on the same file, after a first run in which no
\* batch call failed, issues no translate call and leaves the same output.
C5_RerunIdempotentAfterCleanRun ==
    (pc = "done" /\ run = 2 /\ Len(srt_files) = 1
        /\ ~prev.failed /\ prev.written = {1}) =>
        /\ "translate" \notin effects
        /\ output_files = prev.outputs

\* C5 amended: a second run on the same file, started with a cache that holds
\* every clean text of the file, issues no translate call, writes no cache
\* entry, and leaves the output the first run wrote.
C5_RerunIdempotentOnFullHit ==
    (pc = "done" /\ run = 2 /\ Len(srt_files) = 1 /\ FullHitAtStart) =>
        /\ "translate" \notin effects
        /\ "cache_write" \notin effects
        /\ CACHE_FILE = run_start_cache
        /\ prev.written = {1} => output_files = prev.outputs

C5_Witness ==
    /\ pc = "done"
    /\ run = 2
    /\ Len(srt_files) = 1
    /\ FullHitAtStart
    /\ "cache_write" \in prev.effects
    /\ prev.written = {1}
    /\ written = {1}

(***************************************************************************)
(* Properties of the quota guard                                           *)
(***************************************************************************)
\* The usage fraction compared with p percent (fraction 0 when the limit is 0).
UsedTimes100 == IF account[2] = 0 THEN 0 ELSE 100 * account[1]
PercentOfLimit(p) == IF account[2] = 0 THEN p ELSE p * account[2]

InitialOutputs ==
    IF run = 1 THEN [k \in 1..Len(srt_files) |-> NoOutput] ELSE prev.outputs

\* C6: get_usage is called at most once per run; a caption file is read, a
\* translate call made, an output or the cache file written only after exactly
\* one get_usage call that succeeded with fraction <= threshold; a fraction
\* above the threshold or a failed usage query exits with code 1 and leaves
\* every file as it was.
C6_QuotaGateFirst ==
    /\ usage_calls <= 1
    /\ (effects # {} \/ pc \in {"discover", "file", "batches", "segments", "done"}) =>
          /\ usage_calls = 1
          /\ quota_tier \in {"warn", "pass"}
          /\ UsedTimes100 <= PercentOfLimit(config.quota_threshold)
    /\ (usage_calls = 1 /\ UsedTimes100 > PercentOfLimit(config.quota_threshold)) =>
          /\ pc = "exited"
          /\ exit_code = 1
    /\ (pc = "exited" /\ (quota_tier = "abort" \/ exit_reason = "usage_error"
                            \/ (exit_reason = "forbidden" /\ quota_tier = "none"))) =>
          /\ exit_code = 1
          /\ effects = {}
          /\ CACHE_FILE = run_start_cache
          /\ output_files = InitialOutputs

C6_Witness ==
    /\ pc = "exited"
    /\ quota_tier = "abort"
    /\ usage_calls = 1
    /\ srt_files # <<>>
    /\ CACHE_FILE.exists

\* C7 as stated: abort iff f > T, warning iff T-0.15 <= f <= T, positive
\* message iff f < T-0.15.
C7_ThreeTiersInclusive ==
    quota_tier # "none" =>
        LET f == UsedTimes100
            T == PercentOfLimit(config.quota_threshold)
            W == PercentOfLimit(config.quota_threshold - WarnMarginPct)
        IN /\ quota_tier = "abort" <=> f > T
           /\ quota_tier = "warn" <=> (W <= f /\ f <= T)
           /\ quota_tier = "pass" <=> f < W

\* C7 amended: abort iff f > T, warning iff T-0.15 < f <= T, positive message
\* iff f <= T-0.15.
C7_ThreeTiers ==
    quota_tier # "none" =>
        LET f == UsedTimes100
            T == PercentOfLimit(config.quota_threshold)
            W == PercentOfLimit(config.quota_threshold - WarnMarginPct)
        IN /\ quota_tier = "abort" <=> f > T
           /\ quota_tier = "warn" <=> (W < f /\ f <= T)
           /\ quota_tier = "pass" <=> f <= W

C7_Witness ==
    /\ quota_tier = "pass"
    /\ account[2] # 0
    /\ UsedTimes100 = PercentOfLimit(config.quota_threshold - WarnMarginPct)

(***************************************************************************)
(* Properties of the cache, the file boundary and response splitting       *)
(***************************************************************************)
CacheLoaded == pc \in {"file", "batches", "segments", "done"}
\* What C8 asks of every step.
C8_Step ==
    /\ "cache_write" \in effects' =>
          CACHE_FILE' = CacheFileOf(cache')
    /\ \A t \in DOMAIN cache' :
          /\ CACHE_FILE'.exists
          /\ CACHE_FILE'.parsable
          /\ t \in DOMAIN CACHE_FILE'.data
          /\ CACHE_FILE'.data[t] = cache'[t]
    /\ (run' = run /\ CacheLoaded) => \A t \in DOMAIN cache : t \in DOMAIN cache'
    /\ \A t \in DOMAIN CACHE_FILE.data : t \in DOMAIN CACHE_FILE'.data

C9_Step ==
    /\ (file_idx \in raised' /\ file_idx \notin raised) =>
          /\ pc' = "file"
          /\ file_idx' = file_idx + 1
          /\ exit_code' = -1
          /\ exit_reason' = "none"
    /\ pc' = "file" => invoked' = [k \in 1..(file_idx' - 1) |-> k]
    /\ pc' = "done" =>
          /\ exit_code' = 0
          /\ invoked' = [k \in 1..Len(srt_files) |-> k]
    /\ (pc' = "exited" /\ invoked' # <<>>) => exit_reason' = "forbidden"

\* C9: a step in which a file's processing raises (read, translate or write)
\* returns to main's loop at the next file with the process still running;
\* process_srt_file is invoked for the discovered files in order without gaps;
\* a run that reaches the end has exit code 0 and has invoked every file; and
\* once the loop has started only an HTTP 403 ends the process early.
C9_FileFailureIsolated == [][C9_Step]_vars

C9_Witness ==
    /\ pc = "done"
    /\ exit_code = 0
    /\ 1 \in raised
    /\ 2 \in written
    /\ invoked = <<1, 2>>

\* C10: after a batch with a non-empty response has been recorded, each source
\* text s_i has a result-map entry and a cache entry iff segment t_i exists and
\* is non-empty after trimming, and then both entries are trim(t_i).
C10_PositionalSplit ==
    (pc = "batches" /\ batch_idx > 1 /\ (batch_idx - 1) \notin failed_batches) =>
        LET texts == batches[batch_idx - 1].original_texts
            segs == translated_segments
        IN \A i \in DOMAIN texts :
              IF i <= Len(segs) /\ Strip(segs[i]) # <<>>
              THEN /\ texts[i] \in DOMAIN all_translations
                   /\ all_translations[texts[i]] = Strip(segs[i])
                   /\ texts[i] \in DOMAIN cache
                   /\ cache[texts[i]] = Strip(segs[i])
              ELSE /\ texts[i] \notin DOMAIN all_translations
                   /\ texts[i] \notin DOMAIN cache

\* The statement of C10 restricted to files whose batches list no text twice.
C10_PositionalSplitOfDistinctTexts ==
    C1_BatchesArePartition => C10_PositionalSplit

(***************************************************************************)
(* Properties of reassembly                                                *)
(***************************************************************************)
\* The step that writes the output of the file being processed.
WritesOutput == file_idx \in written' /\ file_idx \notin written

\* The value the lookup chain names for a clean text: the result-map entry,
\* else the cache entry, else the placeholder.
ChainValue(t) ==
    IF t \in DOMAIN all_translations THEN all_translations[t]
    ELSE IF t \in DOMAIN cache THEN cache[t]
    ELSE PLACEHOLDER

\* What C11 asks of every step.
C11_Step ==
    WritesOutput =>
        \A k \in DOMAIN indexed_blocks :
            output_files'[file_idx].blocks[k].translated =
                ChainValue(CleanText(indexed_blocks[k].text_lines))

\* C11: when a file's output is written, the translated line of every unit is
\* the result-map value of its clean text if the result map has an entry, else
\* the cache value if the cache has an entry, and the placeholder only if
\* neither has an entry.
C11_LookupChain == [][C11_Step]_vars

\* What C11 asks of every step, for units whose stored value is not empty.
C11_StepNonEmpty ==
    WritesOutput =>
        \A k \in DOMAIN indexed_blocks :
            LET t == CleanText(indexed_blocks[k].text_lines)
            IN ChainValue(t) # <<>> =>
                  output_files'[file_idx].blocks[k].translated = ChainValue(t)

\* The statement of C11 restricted to stored values that are not empty.
C11_LookupChainOfNonEmptyValues == [][C11_StepNonEmpty]_vars

IsNonBlankLine(l) == Strip(l) # <<>>

\* C12: the output of every file written in this run has one block per parsed
\* unit, in unit order; the lines of each block are the unit's index line, its
\* time-range line, its non-blank text lines in order, and one translated entry
\* after them.
C12_OutputKeepsStructure ==
    \A f \in written :
        LET units == srt_files[f].units
            blocks == output_files[f].blocks
        IN /\ output_files[f].exists
           /\ Len(blocks) = Len(units)
           /\ \A k \in DOMAIN units :
                 LET kept == SelectSeq(units[k].text_lines, IsNonBlankLine)
                     out == BlockLines(blocks[k])
                 IN /\ Len(out) = 2 + Len(kept) + 1
                    /\ out[1] = units[k].index
                    /\ out[2] = units[k].timestamp
                    /\ SubSeq(out, 3, 2 + Len(kept)) = kept
                    /\ out[Len(out)] = blocks[k].translated
                    /\ blocks[k].translated # <<>>

C12_Witness ==
    /\ pc = "done"
    /\ written = {1}
    /\ Len(srt_files[1].units) = 2
    /\ "batch_failed" \in effects
    /\ "cache_write" \in effects
    /\ output_files[1].blocks[1].translated = PLACEHOLDER
    /\ output_files[1].blocks[2].translated # PLACEHOLDER
    /\ Len(output_files[1].blocks[2].lines) < Len(srt_files[1].units[2].text_lines)

(***************************************************************************)
(* Properties of pacing, fatal errors and call order                       *)
(***************************************************************************)
\* The step makes a translate call: every step out of the batch loop's head
\* while a batch is left.
MakesTranslateCall ==
    InBatchLoop /\ (pc' # pc \/ batch_idx' # batch_idx \/ file_idx' # file_idx)

\* What C13 asks of every step.
C13_Step ==
    (MakesTranslateCall /\ usage_calls > 0) => slept

\* C13: whenever a translate call is made after an earlier API call of the
\* run (the usage query or a translate call, successful or failed), the
\* configured delay has been slept since that earlier call.
C13_DelayBetweenCalls == [][C13_Step]_vars

\* What C13 asks of every step whose preceding API call was an answered
\* translate call of the same file.
C13_StepAfterAnswer ==
    (MakesTranslateCall /\ calls # <<>>
        /\ calls[Len(calls)] \notin failed_batches) => slept

\* The statement of C13 restricted to calls that follow a translate call with
\* a usable answer.
C13_DelayAfterAnsweredCall == [][C13_StepAfterAnswer]_vars

\* What C14 asks of every step.
C14_Step ==
    /\ ~http_403
    /\ http_403' =>
          /\ pc' = "exited"
          /\ exit_code' = 1
          /\ raised' = raised
          /\ failed_batches' = failed_batches
          /\ file_idx' = file_idx
          /\ batch_idx' = batch_idx
          /\ written' = written
          /\ output_files' = output_files
          /\ cache' = cache
          /\ CACHE_FILE' = CACHE_FILE

\* C14: the step in which the provider answers HTTP 403, to the usage query or
\* to a translate call, ends the process with exit code 1 without entering the
\* per-file except branch or the failed-batch branch and without touching
\* cache or outputs; and no step is taken after it.
C14_ForbiddenIsFatal == [][C14_Step]_vars

C14_Witness ==
    /\ pc = "exited"
    /\ exit_code = 1
    /\ http_403
    /\ Len(srt_files) = 2
    /\ file_idx = 1
    /\ Len(batches) = 2
    /\ batch_idx = 2
    /\ "cache_write" \in effects

\* The step in which main constructs the TranslationCache.
LoadsCache == pc = "discover" /\ pc' # pc

\* What C15 asks of every step.
C15_Step ==
    (LoadsCache /\ (~CACHE_FILE.exists \/ ~CACHE_FILE.parsable)) =>
        /\ cache' = EmptyDict
        /\ pc' = IF srt_files = <<>> THEN "done" ELSE "file"
        /\ exit_code' # 1
        /\ CACHE_FILE' = CACHE_FILE

\* C15: when cache.json is absent or its content cannot be parsed into a dict,
\* the step that loads the cache leaves an empty in-memory cache and the
\* process running, at the first discovered file (or done when there is none).
C15_CacheLoadNeverFatal == [][C15_Step]_vars

\* What C15 asks of every step, for a cache file that is absent or holds
\* UTF-8 text that is not JSON.
C15_StepDecodable ==
    (LoadsCache /\ (~CACHE_FILE.exists \/ CACHE_FILE.decodable)
        /\ ~CACHE_FILE.parsable) =>
        /\ cache' = EmptyDict
        /\ pc' = IF srt_files = <<>> THEN "done" ELSE "file"
        /\ exit_code' # 1
        /\ CACHE_FILE' = CACHE_FILE

\* The statement of C15 restricted to an absent file and to text that is not
\* JSON.
C15_CacheLoadNeverFatalForText == [][C15_StepDecodable]_vars

\* The step ends the processing of the current file.
EndsFile == InFile /\ ~InFile'

\* The batches passed to translate for the current file once the step is done.
CallsMade == IF MakesTranslateCall THEN Append(calls, batch_idx) ELSE calls

PlanOrder(n) == [i \in 1..n |-> i]

\* What C16 as stated asks of every step.
C16_StepExactlyOnce ==
    /\ (InFile /\ InFile') => (batches' = batches /\ file_idx' = file_idx)
    /\ EndsFile => CallsMade = PlanOrder(Len(batches))

\* C16 as stated: the batches of a file are planned before its first translate
\* call, and by the time the file's processing ends every planned batch has
\* been passed to translate exactly once, in plan order.
C16_EveryBatchCalledOnce == [][C16_StepExactlyOnce]_vars

\* What C16 amended asks of every step.
C16_Step ==
    /\ (InFile /\ InFile') => (batches' = batches /\ file_idx' = file_idx)
    /\ InFile =>
          /\ calls = PlanOrder(Len(calls))
          /\ Len(calls) = IF pc = "segments" THEN batch_idx ELSE batch_idx - 1
          /\ Len(calls) <= Len(batches)
    /\ MakesTranslateCall => CallsMade = PlanOrder(Len(calls) + 1)
    /\ WritesOutput => calls = PlanOrder(Len(batches))

\* C16 amended: the batches of a file are planned before its first translate
\* call and one file is processed at a time; the batches passed to translate
\* are at every moment a prefix of the plan, each passed once and in plan
\* order, a failed or partial response being followed by the next batch; and
\* a file whose output is written has had every planned batch passed once.
C16_SingleAttemptInPlanOrder == [][C16_Step]_vars

C16_Witness ==
    /\ pc = "batches"
    /\ Len(batches) = 2
    /\ batch_idx = 3
    /\ calls = <<1, 2>>
    /\ 1 \in failed_batches
    /\ 2 \notin failed_batches
    /\ Len(translated_segments) = 1

(***************************************************************************)
(* Properties of the result map and the cache during a run                 *)
(***************************************************************************)
\* C17: while a file is processed, every result-map entry is a cache entry
\* with the same value, and a clean text of the file without a result-map
\* entry has no cache entry either.
C17_ResultMapWithinCache ==
    InFile =>
        /\ \A t \in DOMAIN all_translations :
              /\ t \in DOMAIN cache
              /\ cache[t] = all_translations[t]
        /\ \A t \in FileTexts :
              t \notin DOMAIN all_translations => t \notin DOMAIN cache

C17_Witness ==
    /\ pc = "batches"
    /\ batch_idx > Len(batches)
    /\ \E t \in DOMAIN all_translations : t \in DOMAIN run_start_cache.data
    /\ \E t \in DOMAIN all_translations :
          t \notin DOMAIN plan_caches[Len(plan_caches)]
    /\ \E t \in DOMAIN cache : t \notin DOMAIN all_translations

\* What C18 asks of every step.
C18_Step ==
    /\ (run' = run /\ CacheLoaded) => \A t \in DOMAIN cache : t \in DOMAIN cache'
    /\ \A i \in DOMAIN plan_caches' :
          \A t \in DOMAIN plan_caches'[i] :
              /\ t \in DOMAIN cache'
              /\ cache'[t] = plan_caches'[i][t]
    /\ (InFile /\ cache' # cache) =>
          \A t \in DOMAIN cache' :
              (t \notin DOMAIN cache \/ cache'[t] # cache[t]) =>
                  t \notin DOMAIN plan_caches[Len(plan_caches)]

\* C18: within a run no key leaves the in-memory cache; every entry the cache
\* held when the planning of some file started is still there with the same
\* value at any later moment of the run; and a step that changes the cache
\* changes only texts that were misses when the current file was planned.
C18_CacheStable == [][C18_Step]_vars

C18_Witness ==
    /\ Len(plan_caches) = 2
    /\ DOMAIN plan_caches[2] # {}
    /\ plan_caches[1] # plan_caches[2]
    /\ cache # plan_caches[2]
    /\ pc = "done"

\* What C19 asks of every step.
C19_Step ==
    (pc # "discover" /\ run' = run) =>
        \A t \in DOMAIN cache' :
            (t \notin DOMAIN cache \/ cache'[t] # cache[t]) =>
                /\ cache'[t] # <<>>
                /\ Strip(cache'[t]) = cache'[t]
                /\ seg_idx \in DOMAIN translated_segments
                /\ cache'[t] = Strip(translated_segments[seg_idx])
                /\ CACHE_FILE'.data[t] = cache'[t]

\* C19: every value a step of a run puts into the cache (and cache.json), be
\* it for a new key or over an old value, is non-empty, free of leading and
\* trailing whitespace, and is the trimmed response segment at the position
\* being recorded.
C19_OnlyTrimmedNonEmptyValues == [][C19_Step]_vars

C19_Witness ==
    /\ pc = "batches"
    /\ batch_idx = 2
    /\ 1 \notin failed_batches
    /\ Len(batches[1].original_texts) = 2
    /\ Len(translated_segments) = 2
    /\ Strip(translated_segments[1]) = <<>>
    /\ translated_segments[2] = <<" ", "y", " ">>
    /\ batches[1].original_texts[1] \notin DOMAIN cache
    /\ batches[1].original_texts[2] \in DOMAIN cache
    /\ cache[batches[1].original_texts[2]] = <<"y">>

(***************************************************************************)
(* Properties of an aborted file                                           *)
(***************************************************************************)
\* The step in which the processing of the current file raises.
AbortsFile == file_idx \in raised' /\ file_idx \notin raised

\* What C20 asks of every step.
C20_Step ==
    (AbortsFile /\ InFile) =>
        /\ \A t \in DOMAIN cache :
              t \notin DOMAIN plan_caches[Len(plan_caches)] =>
                  /\ t \in DOMAIN cache'
                  /\ cache'[t] = cache[t]
                  /\ CACHE_FILE'.exists
                  /\ t \in DOMAIN CACHE_FILE'.data
                  /\ CACHE_FILE'.data[t] = cache[t]
        /\ cache' = cache
        /\ CACHE_FILE' = CACHE_FILE
        /\ file_idx \notin written'
        /\ output_files' = output_files

\* C20: the step in which a file's processing is aborted by an exception after
\* planning keeps every cache entry the file's batches wrote, in memory and in
\* cache.json, changes nothing else of the cache, writes no output for the
\* file and leaves every output file as it was.
C20_AbortKeepsCacheAndOutputs == [][C20_Step]_vars

C20_Witness ==
    /\ pc = "done"
    /\ Len(srt_files) = 2
    /\ written = {1}
    /\ raised = {2}
    /\ output_files[1].exists
    /\ ~output_files[2].exists
    /\ Len(plan_caches) = 2
    /\ cache # plan_caches[2]
    /\ CACHE_FILE.data = cache

====
